---------------------------- MODULE Spec2Model ----------------------------
(***************************************************************************)
(* Model of the AWS cost notification Lambda, in its two variants:         *)
(*   CostNotificationEmail.py  (previous-month window, SNS topic publish)  *)
(*   CostNotificationLINE.py   (current-month window, LINE Notify POST)    *)
(*                                                                         *)
(* Python strings the code parses or builds (amounts, units, dates, the    *)
(* total) are sequences of one-character strings.  A Python float is the   *)
(* integer number of hundredths it stands for: every amount of the model   *)
(* has a fractional part that is a multiple of 0.25, which binary floating *)
(* point represents and adds exactly, so the float arithmetic of the code  *)
(* is exact on these inputs.                                               *)
(***************************************************************************)
EXTENDS Integers, Sequences, FiniteSets, TLC

VARIABLES
    variant,                       \* "Email" or "LINE": which file runs
    LOG_LEVEL,                     \* os.environ.get('LOG_LEVEL', 'INFO')
    pc,                            \* position of the invocation
    now,                           \* datetime.datetime.now(UTC): [year, month, day]
    budget_filters,                \* response['Budget']['CostFilters'] values
    org_pages,                     \* pages of client_organizations list_accounts
    service_groups,                \* Groups of the service-grouped cost response
    account_groups,                \* Groups of the account-grouped cost response
    account_list,                  \* main(): account_list
    start_utc_str,                 \* main(): start_utc_str
    end_utc_str,                   \* main(): end_utc_str
    account_name_dict,             \* main(): account_name_dict
    service_cost_ranking_message,  \* main(): service_cost_ranking_message
    total_cost,                    \* main(): total_cost
    account_cost_ranking_message,  \* main(): account_cost_ranking_message
    exc,                           \* the exception in flight, or NoExc
    raised,                        \* every exception raised: <<[kind, stage]>>
    caught,                        \* every except clause entered: <<[kind, by, branch]>>
    sent,                          \* transport calls issued: <<[channel, ...]>>
    completed,                     \* functions of main() that returned, in order
    log                            \* calls to the logger: <<[level, msg]>>

\* the deployment and the clock
config == << variant, LOG_LEVEL, now >>

\* what the AWS services answered
world == << budget_filters, org_pages, service_groups, account_groups >>

\* the local variables of main()
window == << start_utc_str, end_utc_str >>

rankings == << service_cost_ranking_message, total_cost,
              account_cost_ranking_message >>

\* what the invocation did
trace == << exc, raised, caught, sent, completed, log >>

vars == << pc, config, world, account_list, window, account_name_dict,
           rankings, trace >>

-----------------------------------------------------------------------------
(* Bounds of the model. *)

\* Longest cost response over the narrow group set (more than 5 groups, so
\* that both truncations [:5] and [:3] cut something).
MaxGroups == 6

\* Longest cost response over the full group set (every amount and unit).
MaxRichGroups == 2

\* Most pages of the organization listing.
MaxPages == 2

-----------------------------------------------------------------------------
(* Python built-ins the code uses. *)

Digits == << "0", "1", "2", "3", "4", "5", "6", "7", "8", "9" >>

DigitVal(c) == CHOOSE d \in 0..9 : Digits[d + 1] = c

\* str(n) for an int n
RECURSIVE NatToStr(_)
NatToStr(n) ==
    IF n < 10 THEN << Digits[n + 1] >>
    ELSE NatToStr(n \div 10) \o << Digits[(n % 10) + 1] >>

IntToStr(n) == IF n < 0 THEN << "-" >> \o NatToStr(-n) ELSE NatToStr(n)

\* the value of a string of decimal digits
RECURSIVE DigitsToNat(_)
DigitsToNat(s) ==
    IF s = << >> THEN 0
    ELSE 10 * DigitsToNat(SubSeq(s, 1, Len(s) - 1)) + DigitVal(s[Len(s)])

\* number of characters of s before the first c (Len(s) when c is not in s)
RECURSIVE FindChar(_, _)
FindChar(s, c) ==
    IF s = << >> \/ Head(s) = c THEN 0 ELSE 1 + FindChar(Tail(s), c)

\* the text before the first '.', and the text after it (empty when there
\* is none)
BeforeDot(s) == SubSeq(s, 1, FindChar(s, "."))

AfterDot(s) == SubSeq(s, FindChar(s, ".") + 2, Len(s))

\* float(s) for a decimal string [-]digits[.digits] of at most two
\* fractional digits: the number of hundredths
Float(s) ==
    LET neg  == s # << >> /\ Head(s) = "-"
        body == IF neg THEN Tail(s) ELSE s
        ip   == DigitsToNat(BeforeDot(body))
        fr   == AfterDot(body)
        fp   == IF Len(fr) = 0 THEN 0
                ELSE IF Len(fr) = 1 THEN 10 * DigitsToNat(fr)
                ELSE DigitsToNat(SubSeq(fr, 1, 2))
        mag  == 100 * ip + fp
    IN  IF neg THEN -mag ELSE mag

\* A rounding bug: the amount rounded to the nearest integer, not cut.
SplitDot0Rounded(s) ==
    LET f == Float(s)
    IN  IF f >= 0 THEN NatToStr((f + 50) \div 100)
        ELSE << "-" >> \o NatToStr((50 - f) \div 100)

\* s.split('.')[0]
SplitDot0(s) == SubSeq(s, 1, FindChar(s, "."))

\* int(f) for a float f: the integer part, truncated toward zero
IntOfFloat(f) == IF f >= 0 THEN f \div 100 ELSE -((-f) \div 100)

\* str(f) for a float f: shortest repr, positional, at least one
\* fractional digit ("1.0", "0.5", "12.75", "-0.5")
StrOfFloat(f) ==
    LET mag == IF f < 0 THEN -f ELSE f
        ip  == mag \div 100
        fp  == mag % 100
        fr  == IF fp % 10 = 0 THEN << Digits[(fp \div 10) + 1] >>
               ELSE << Digits[(fp \div 10) + 1], Digits[(fp % 10) + 1] >>
    IN  (IF f < 0 THEN << "-" >> ELSE << >>) \o NatToStr(ip) \o << "." >> \o fr

\* sorted(groups, key=lambda x: float(x[...]['Amount']), reverse=True):
\* a stable sort, descending; groups of equal key keep their order
AmountKey(group) == Float(group.Metrics.UnblendedCost.Amount)

\* An unstable sort: a group goes before the groups of equal amount.
RECURSIVE InsertDescUnstable(_, _)
InsertDescUnstable(sortedSeq, x) ==
    IF sortedSeq = << >> THEN << x >>
    ELSE IF AmountKey(Head(sortedSeq)) > AmountKey(x)
         THEN << Head(sortedSeq) >> \o InsertDescUnstable(Tail(sortedSeq), x)
         ELSE << x >> \o sortedSeq

RECURSIVE InsertDesc(_, _)
InsertDesc(sortedSeq, x) ==
    IF sortedSeq = << >> THEN << x >>
    ELSE IF AmountKey(Head(sortedSeq)) >= AmountKey(x)
         THEN << Head(sortedSeq) >> \o InsertDesc(Tail(sortedSeq), x)
         ELSE << x >> \o sortedSeq

RECURSIVE SortedReverse(_)
SortedReverse(groups) ==
    IF groups = << >> THEN << >>
    ELSE InsertDesc(SortedReverse(SubSeq(groups, 1, Len(groups) - 1)),
                    groups[Len(groups)])

\* A missing slice: the whole list.
SliceAll(seq, n) == seq

\* seq[:n]
Slice(seq, n) == SubSeq(seq, 1, IF Len(seq) < n THEN Len(seq) ELSE n)

\* A missing filter: every group is kept.
NotTaxUnfiltered(groups) == groups

\* [group for group in groups if group['Keys'][0] != 'Tax']
RECURSIVE NotTax(_)
NotTax(groups) ==
    IF groups = << >> THEN << >>
    ELSE IF Head(groups).Keys[1] # "Tax"
         THEN << Head(groups) >> \o NotTax(Tail(groups))
         ELSE NotTax(Tail(groups))

TOP == << "T", "O", "P" >>

NoExc == "None"

-----------------------------------------------------------------------------
(* get_service_cost_ranking, from the Groups of the cost response on. *)

Email_get_service_cost_ranking(groups) ==
    LET top == Slice(SortedReverse(NotTax(groups)), 5)
    IN  [ i \in 1..Len(top) |->
            LET index   == i - 1
                service == top[i]
                service_cost_str_float == service.Metrics.UnblendedCost.Amount
            IN  [ rank |-> TOP \o IntToStr(index + 1),
                  cost |-> SplitDot0(service_cost_str_float),
                  unit |-> service.Metrics.UnblendedCost.Unit,
                  name |-> service.Keys[1] ] ]

LINE_get_service_cost_ranking(groups) ==
    LET top == Slice(SortedReverse(NotTax(groups)), 5)
    IN  [ i \in 1..Len(top) |->
            LET index   == i - 1
                service == top[i]
                service_cost_str_float == service.Metrics.UnblendedCost.Amount
            IN  [ rank |-> TOP \o IntToStr(index + 1),
                  cost |-> SplitDot0(service_cost_str_float),
                  unit |-> service.Metrics.UnblendedCost.Unit,
                  name |-> service.Keys[1] ] ]

-----------------------------------------------------------------------------
(* get_account_cost_ranking, from the Groups of the cost response on.      *)
(* arg_account_name_dict[account_id] raises KeyError for an account_id     *)
(* that is no key of the dict: the loop stops there and nothing is         *)
(* returned.                                                               *)

\* the ranking loop of both variants: the lines it appends
AccountRankingLines(arg_account_name_dict, top) ==
    [ i \in 1..Len(top) |->
        LET index      == i - 1
            group      == top[i]
            account_id == group.Keys[1]
            account_cost_str_float == group.Metrics.UnblendedCost.Amount
        IN  [ rank |-> TOP \o IntToStr(index + 1),
              cost |-> SplitDot0(account_cost_str_float),
              unit |-> group.Metrics.UnblendedCost.Unit,
              name |-> arg_account_name_dict[account_id],
              id   |-> account_id ] ]

\* A unit read from the top-ranked group instead of the last one iterated.
UnitOfFirst(top) ==
    IF top = << >> THEN << >> ELSE top[1].Metrics.UnblendedCost.Unit

\* unit after the ranking loop: "" or the unit of the last group iterated
UnitAfterLoop(top) ==
    IF top = << >> THEN << >> ELSE top[Len(top)].Metrics.UnblendedCost.Unit

\* A total summed over the groups the ranking keeps (Tax left out).
RECURSIVE Email_total_cost_int_NoTax(_)
Email_total_cost_int_NoTax(groups) ==
    IF groups = << >> THEN 0
    ELSE Email_total_cost_int_NoTax(SubSeq(groups, 1, Len(groups) - 1))
         + ( IF groups[Len(groups)].Keys[1] = "Tax" THEN 0
             ELSE IntOfFloat(Float(groups[Len(groups)].Metrics.UnblendedCost.Amount)) )

\* Email: total_cost_int += int(float(amount)) over the Groups
RECURSIVE Email_total_cost_int(_)
Email_total_cost_int(groups) ==
    IF groups = << >> THEN 0
    ELSE Email_total_cost_int(SubSeq(groups, 1, Len(groups) - 1))
         + IntOfFloat(Float(groups[Len(groups)].Metrics.UnblendedCost.Amount))

\* A routine that names an account missing from the map "Unknown" instead
\* of raising.
Email_get_account_cost_ranking_Placeholder(arg_account_name_dict, groups) ==
    LET top == Slice(SortedReverse(NotTax(groups)), 3)
        named == [ id \in { top[i].Keys[1] : i \in DOMAIN top } |->
                     IF id \in DOMAIN arg_account_name_dict
                     THEN arg_account_name_dict[id] ELSE "Unknown" ]
    IN  [ exc |-> NoExc,
          total_cost |-> IntToStr(Email_total_cost_int(groups)) \o UnitAfterLoop(top),
          account_cost_ranking_message |-> AccountRankingLines(named, top) ]

\* LINE: total_cost_float += float(amount) over the Groups
RECURSIVE LINE_total_cost_float(_)
LINE_total_cost_float(groups) ==
    IF groups = << >> THEN 0
    ELSE LINE_total_cost_float(SubSeq(groups, 1, Len(groups) - 1))
         + Float(groups[Len(groups)].Metrics.UnblendedCost.Amount)

Email_get_account_cost_ranking(arg_account_name_dict, groups) ==
    LET top == Slice(SortedReverse(NotTax(groups)), 3)
    IN  IF \E i \in 1..Len(top) : top[i].Keys[1] \notin DOMAIN arg_account_name_dict
        THEN [ exc |-> "KeyError" ]
        ELSE [ exc |-> NoExc,
               total_cost |-> IntToStr(Email_total_cost_int(groups))
                                \o UnitAfterLoop(top),
               account_cost_ranking_message |->
                    AccountRankingLines(arg_account_name_dict, top) ]

LINE_get_account_cost_ranking(arg_account_name_dict, groups) ==
    LET top == Slice(SortedReverse(NotTax(groups)), 3)
    IN  IF \E i \in 1..Len(top) : top[i].Keys[1] \notin DOMAIN arg_account_name_dict
        THEN [ exc |-> "KeyError" ]
        ELSE [ exc |-> NoExc,
               total_cost |-> SplitDot0(StrOfFloat(LINE_total_cost_float(groups)))
                                \o UnitAfterLoop(top),
               account_cost_ranking_message |->
                    AccountRankingLines(arg_account_name_dict, top) ]

-----------------------------------------------------------------------------
(* The inputs of the model. *)

USD == << "U", "S", "D" >>
JPY == << "J", "P", "Y" >>

\* The amounts of the model: the decimal string the cost query returns and
\* the number it stands for, in hundredths.
AmountTable ==
    { [ text |-> << "0", ".", "5" >>,            value |-> 50   ],
      [ text |-> << "-", "1", ".", "5" >>,       value |-> -150 ],
      [ text |-> << "2", ".", "5" >>,            value |-> 250  ],
      [ text |-> << "2", ".", "7", "5" >>,       value |-> 275  ],
      [ text |-> << "1", "0" >>,                 value |-> 1000 ] }

Amounts == { a.text : a \in AmountTable }

NarrowAmounts == { << "2", ".", "5" >>, << "1", "0" >> }

Units == { USD, JPY }

\* The group key at position i of a response when it is not "Tax": keys are
\* unique within a response (one group per service or linked account, and
\* at most one "Tax" group).
KeyNames == << "111", "222", "333", "444", "555", "666", "777", "888" >>

AccountNames == << "Dev", "Ops", "Stg", "Prd", "Sec", "Log", "Net", "Ext" >>

Group(key, amount, unit) ==
    [ Keys |-> << key >>,
      Metrics |-> [ UnblendedCost |-> [ Amount |-> amount, Unit |-> unit ] ] ]

\* responses of exactly n groups, the i-th keyed KeyNames[i]
RECURSIVE PlainGroupSeqs(_, _, _)
PlainGroupSeqs(n, amounts, units) ==
    IF n = 0 THEN { << >> }
    ELSE { Append(r, Group(KeyNames[n], a, u)) :
             r \in PlainGroupSeqs(n - 1, amounts, units),
             a \in amounts, u \in units }

\* the same with the key of group t replaced by "Tax" (t = 0: no Tax group)
WithTaxAt(r, t) ==
    [ i \in DOMAIN r |-> IF i = t THEN [ r[i] EXCEPT !.Keys = << "Tax" >> ]
                         ELSE r[i] ]

\* responses of exactly n groups, at most one of them keyed "Tax"
GroupSeqs(n, amounts, units) ==
    { WithTaxAt(r, t) : r \in PlainGroupSeqs(n, amounts, units), t \in 0..n }

Responses ==
    UNION { GroupSeqs(n, Amounts, Units) : n \in 0..MaxRichGroups }
    \cup UNION { GroupSeqs(n, NarrowAmounts, { USD }) : n \in 0..MaxGroups }

\* the name map with every key of KeyNames in it, and the map that misses one
FullNameDict ==
    [ id \in { KeyNames[i] : i \in DOMAIN KeyNames } |->
        AccountNames[CHOOSE i \in DOMAIN KeyNames : KeyNames[i] = id] ]

Without(dict, id) == [ k \in (DOMAIN dict) \ { id } |-> dict[k] ]

NameDicts == { FullNameDict, Without(FullNameDict, KeyNames[1]) }

-----------------------------------------------------------------------------
(* SpecRanking: the two ranking routines applied to one cost response. *)

Idle ==
    /\ LOG_LEVEL = "INFO"
    /\ exc = NoExc
    /\ raised = << >>
    /\ caught = << >>
    /\ sent = << >>
    /\ completed = << >>
    /\ log = << >>

InitRanking ==
    /\ Idle
    /\ now = [ year |-> 2024, month |-> 3, day |-> 15 ]
    /\ budget_filters = << >>
    /\ org_pages = << >>
    /\ account_list = << >>
    /\ start_utc_str = << >>
    /\ end_utc_str = << >>
    /\ variant \in { "Email", "LINE" }
    /\ pc = "input"
    /\ \E r \in Responses : service_groups = r /\ account_groups = r
    /\ account_name_dict = << >>
    /\ service_cost_ranking_message = << >>
    /\ total_cost = << >>
    /\ account_cost_ranking_message = << >>

RankService ==
    /\ pc = "input"
    /\ pc' = "service_ranked"
    /\ service_cost_ranking_message' =
         IF variant = "Email"
         THEN Email_get_service_cost_ranking(service_groups)
         ELSE LINE_get_service_cost_ranking(service_groups)
    /\ UNCHANGED << config, world, account_list, window, account_name_dict,
                    total_cost, account_cost_ranking_message, trace >>

RankAccount ==
    /\ pc = "input"
    /\ \E d \in NameDicts :
         LET res == IF variant = "Email"
                    THEN Email_get_account_cost_ranking(d, account_groups)
                    ELSE LINE_get_account_cost_ranking(d, account_groups)
         IN  /\ account_name_dict' = d
             /\ exc' = res.exc
             /\ IF res.exc = NoExc
                THEN /\ pc' = "account_ranked"
                     /\ total_cost' = res.total_cost
                     /\ account_cost_ranking_message' =
                            res.account_cost_ranking_message
                ELSE /\ pc' = "account_raised"
                     /\ UNCHANGED << total_cost, account_cost_ranking_message >>
    /\ UNCHANGED << config, world, account_list, window,
                    service_cost_ranking_message, raised, caught, sent, completed, log >>

NextRanking == RankService \/ RankAccount

SpecRanking == InitRanking /\ [][NextRanking]_vars

-----------------------------------------------------------------------------
(* SpecTotals: one account-grouped response handed to get_account_cost_ranking *)
(* of the Email deployment and then to that of the LINE deployment, every     *)
(* account of the response being named.                                       *)

InitTotals ==
    /\ Idle
    /\ now = [ year |-> 2024, month |-> 3, day |-> 15 ]
    /\ budget_filters = << >>
    /\ org_pages = << >>
    /\ account_list = << >>
    /\ start_utc_str = << >>
    /\ end_utc_str = << >>
    /\ variant = "Email"
    /\ pc = "input"
    /\ service_groups = << >>
    /\ account_groups \in Responses
    /\ account_name_dict = FullNameDict
    /\ service_cost_ranking_message = << >>
    /\ total_cost = << >>
    /\ account_cost_ranking_message = << >>

TotalEmail ==
    /\ pc = "input"
    /\ LET res == Email_get_account_cost_ranking(account_name_dict, account_groups)
       IN  /\ total_cost' = res.total_cost
           /\ account_cost_ranking_message' = res.account_cost_ranking_message
    /\ pc' = "email_ranked"
    /\ UNCHANGED << config, world, account_list, window, account_name_dict,
                    service_cost_ranking_message, trace >>

TotalLINE ==
    /\ pc = "email_ranked"
    /\ variant' = "LINE"
    /\ LET res == LINE_get_account_cost_ranking(account_name_dict, account_groups)
       IN  /\ total_cost' = res.total_cost
           /\ account_cost_ranking_message' = res.account_cost_ranking_message
    /\ pc' = "line_ranked"
    /\ UNCHANGED << LOG_LEVEL, now, world, account_list, window, account_name_dict,
                    service_cost_ranking_message, trace >>

NextTotals == TotalEmail \/ TotalLINE

SpecTotals == InitTotals /\ [][NextTotals]_vars

-----------------------------------------------------------------------------
(* time_processing.  datetime.datetime(year, month, day) raises ValueError *)
(* for a month outside 1..12; strftime('%Y-%m-%d') pads with zeros.        *)

Pad(n, width) ==
    LET d == NatToStr(n)
    IN  [ i \in 1..(width - Len(d)) |-> "0" ] \o d

Strftime(d) ==
    Pad(d.year, 4) \o << "-" >> \o Pad(d.month, 2) \o << "-" >> \o Pad(d.day, 2)

Email_time_processing(t) ==
    IF t.month - 1 \notin 1..12
    THEN [ exc |-> "ValueError" ]
    ELSE [ exc |-> NoExc,
           start_utc_str |->
               Strftime([ year |-> t.year, month |-> t.month - 1, day |-> 1 ]),
           end_utc_str |-> Strftime(t) ]

LINE_time_processing(t) ==
    IF t.month \notin 1..12
    THEN [ exc |-> "ValueError" ]
    ELSE [ exc |-> NoExc,
           start_utc_str |->
               Strftime([ year |-> t.year, month |-> t.month, day |-> 1 ]),
           end_utc_str |-> Strftime(t) ]

-----------------------------------------------------------------------------
(* get_account_name: the three nested loops over pages, accounts of a page *)
(* and requested identifiers.                                              *)

\* account_name_dict[key] = value
DictSet(dict, key, value) ==
    [ k \in (DOMAIN dict) \cup { key } |-> IF k = key THEN value ELSE dict[k] ]

RECURSIVE AccountsLoop(_, _, _)
AccountsLoop(dict, accounts, arg_account_list) ==
    IF accounts = << >> THEN dict
    ELSE LET account == Head(accounts)
             hit == \E i \in DOMAIN arg_account_list :
                        account.Id = arg_account_list[i]
         IN  AccountsLoop(IF hit THEN DictSet(dict, account.Id, account.Name)
                          ELSE dict,
                          Tail(accounts), arg_account_list)

\* A listing read without pagination: the first page only.
RECURSIVE PagesLoopFirstPage(_, _, _)
PagesLoopFirstPage(dict, pages, arg_account_list) ==
    IF pages = << >> THEN dict
    ELSE AccountsLoop(dict, Head(pages).Accounts, arg_account_list)

RECURSIVE PagesLoop(_, _, _)
PagesLoop(dict, pages, arg_account_list) ==
    IF pages = << >> THEN dict
    ELSE PagesLoop(AccountsLoop(dict, Head(pages).Accounts, arg_account_list),
                   Tail(pages), arg_account_list)

Email_get_account_name(arg_account_list, pages) ==
    PagesLoop(<< >>, pages, arg_account_list)

LINE_get_account_name(arg_account_list, pages) ==
    PagesLoop(<< >>, pages, arg_account_list)

-----------------------------------------------------------------------------
(* SpecTime: time_processing at every date of two years. *)

IsLeap(y) == (y % 4 = 0 /\ y % 100 # 0) \/ y % 400 = 0

DaysInMonth(y, m) ==
    IF m = 2 THEN (IF IsLeap(y) THEN 29 ELSE 28)
    ELSE IF m \in { 4, 6, 9, 11 } THEN 30 ELSE 31

Dates ==
    { [ year |-> y, month |-> m, day |-> d ] :
        y \in { 2023, 2024 }, m \in 1..12, d \in 1..31 }

ValidDates == { t \in Dates : t.day <= DaysInMonth(t.year, t.month) }

NoLocals ==
    /\ account_list = << >>
    /\ start_utc_str = << >>
    /\ end_utc_str = << >>
    /\ account_name_dict = << >>
    /\ service_cost_ranking_message = << >>
    /\ total_cost = << >>
    /\ account_cost_ranking_message = << >>

NoWorld ==
    /\ budget_filters = << >>
    /\ org_pages = << >>
    /\ service_groups = << >>
    /\ account_groups = << >>

InitTime ==
    /\ Idle
    /\ NoWorld
    /\ NoLocals
    /\ variant \in { "Email", "LINE" }
    /\ now \in ValidDates
    /\ pc = "input"

ComputeWindow ==
    /\ pc = "input"
    /\ LET res == IF variant = "Email" THEN Email_time_processing(now)
                  ELSE LINE_time_processing(now)
       IN  /\ exc' = res.exc
           /\ IF res.exc = NoExc
              THEN /\ pc' = "window_computed"
                   /\ start_utc_str' = res.start_utc_str
                   /\ end_utc_str' = res.end_utc_str
              ELSE /\ pc' = "window_raised"
                   /\ UNCHANGED window
    /\ UNCHANGED << config, world, account_list, account_name_dict, rankings,
                    raised, caught, sent, completed, log >>

NextTime == ComputeWindow

SpecTime == InitTime /\ [][NextTime]_vars

-----------------------------------------------------------------------------
(* SpecNames: get_account_name on a requested list and a paginated listing. *)

ListedAccounts ==
    { [ Id |-> "111", Name |-> "Dev" ], [ Id |-> "222", Name |-> "Ops" ],
      [ Id |-> "333", Name |-> "Stg" ] }

RequestedIds == { "111", "222", "444" }

Page(accounts) == [ Accounts |-> accounts ]

\* pages of at most two accounts
Pages ==
    { Page(<< >>) } \cup { Page(<< a >>) : a \in ListedAccounts }
    \cup { Page(<< a, b >>) : a \in ListedAccounts, b \in ListedAccounts }

RECURSIVE PageSeqs(_)
PageSeqs(n) ==
    IF n = 0 THEN { << >> }
    ELSE { Append(ps, pg) : ps \in PageSeqs(n - 1), pg \in Pages }

RECURSIVE ListedIds(_)
ListedIds(pages) ==
    IF pages = << >> THEN << >>
    ELSE [ i \in DOMAIN Head(pages).Accounts |-> Head(pages).Accounts[i].Id ]
         \o ListedIds(Tail(pages))

\* an account identifier is unique within an organization
UniqueIds(pages) ==
    LET ids == ListedIds(pages)
    IN  \A i, j \in DOMAIN ids : ids[i] = ids[j] => i = j

Listings ==
    { ps \in UNION { PageSeqs(n) : n \in 0..MaxPages } : UniqueIds(ps) }

RequestedLists ==
    { << >> } \cup { << a >> : a \in RequestedIds }
    \cup { << a, b >> : a \in RequestedIds, b \in RequestedIds }

InitNames ==
    /\ Idle
    /\ NoLocals
    /\ now = [ year |-> 2024, month |-> 3, day |-> 15 ]
    /\ budget_filters = << >>
    /\ service_groups = << >>
    /\ account_groups = << >>
    /\ variant \in { "Email", "LINE" }
    /\ org_pages \in Listings
    /\ pc = "input"

ResolveNames ==
    /\ pc = "input"
    /\ pc' = "names_resolved"
    /\ \E requested \in RequestedLists :
         /\ account_list' = requested
         /\ account_name_dict' =
              IF variant = "Email"
              THEN Email_get_account_name(requested, org_pages)
              ELSE LINE_get_account_name(requested, org_pages)
    /\ UNCHANGED << config, world, window, rankings, trace >>

NextNames == ResolveNames

SpecNames == InitNames /\ [][NextNames]_vars

-----------------------------------------------------------------------------
(* Spec: one invocation of lambda_handler_entrypoint, function by function. *)
(* A call to an AWS API returns a response or raises ClientError or        *)
(* BotoCoreError; the log is the sequence of calls made to the logger.      *)

ApiErrors == { "ClientError", "BotoCoreError" }

Log(level, msg) == [ level |-> level, msg |-> msg ]

CompletedLine == Log("INFO", "Processing completed successfully")

Raise(kind, stage) ==
    /\ exc' = kind
    /\ raised' = Append(raised, [ kind |-> kind, stage |-> stage ])
    /\ pc' = "except"

Return(stage, next) ==
    /\ completed' = Append(completed, stage)
    /\ pc' = next

\* for values in CostFilters.values(): for value in values: append(value)
RECURSIVE Flatten(_)
Flatten(lists) ==
    IF lists = << >> THEN << >> ELSE Head(lists) \o Flatten(Tail(lists))

BudgetFilterSets ==
    { << >>, << << "111" >> >>, << << "111", "222" >>, << "111" >> >>,
      << << "111", "222", "333" >> >> }

PipelineListings ==
    { << Page(<< >>) >>,
      << Page(<< [ Id |-> "111", Name |-> "Dev" ] >>) >>,
      << Page(<< [ Id |-> "111", Name |-> "Dev" ] >>),
         Page(<< [ Id |-> "222", Name |-> "Ops" ] >>) >>,
      << Page(<< [ Id |-> "111", Name |-> "Dev" ], [ Id |-> "222", Name |-> "Ops" ] >>),
         Page(<< [ Id |-> "333", Name |-> "Stg" ] >>) >> }

PipelineResponses ==
    UNION { GroupSeqs(n, NarrowAmounts, { USD }) : n \in 0..1 }
    \cup { << Group("111", << "0", ".", "5" >>, USD),
              Group("222", << "0", ".", "5" >>, USD) >>,
           \* a fourth account, ranked below the three of the budget
           << Group("444", << "2", ".", "5" >>, USD),
              Group("111", << "1", "0" >>, USD),
              Group("222", << "1", "0" >>, USD),
              Group("333", << "1", "0" >>, USD) >> }

PipelineNows ==
    { [ year |-> 2024, month |-> 1, day |-> 15 ],
      [ year |-> 2024, month |-> 3, day |-> 15 ] }

Init ==
    /\ variant \in { "Email", "LINE" }
    /\ LOG_LEVEL \in { "DEBUG", "INFO", "ERROR" }
    /\ now \in PipelineNows
    /\ pc = "entry"
    /\ NoWorld
    /\ NoLocals
    /\ exc = NoExc
    /\ raised = << >>
    /\ caught = << >>
    /\ sent = << >>
    /\ completed = << >>
    /\ log = << >>

\* lambda_handler_entrypoint up to the call of main(), and main() up to its
\* first call
Entry ==
    /\ pc = "entry"
    /\ pc' = "get_account_list"
    /\ log' = log \o << Log("DEBUG", "lambda_handler_entrypoint() Start processing"),
                        Log("DEBUG", "main() Start processing") >>
    /\ UNCHANGED << config, world, account_list, window, account_name_dict,
                    rankings, exc, raised, caught, sent, completed >>

Main_get_account_list ==
    /\ pc = "get_account_list"
    /\ \/ \E f \in BudgetFilterSets :
            /\ budget_filters' = f
            /\ account_list' = Flatten(f)
            /\ log' = log \o << Log("DEBUG", "get_account_list() Start processing"),
                                Log("DEBUG", "Cost aggregation accounts"),
                                Log("DEBUG", "get_account_list() End processing") >>
            /\ Return("get_account_list", "time_processing")
            /\ UNCHANGED << exc, raised >>
       \/ \E k \in ApiErrors \cup { "KeyError" } :
            \* describe_budget fails, or its response has no 'CostFilters'
            /\ log' = log \o << Log("DEBUG", "get_account_list() Start processing") >>
            /\ Raise(k, "get_account_list")
            /\ UNCHANGED << budget_filters, account_list, completed >>
    /\ UNCHANGED << config, org_pages, service_groups, account_groups, window,
                    account_name_dict, rankings, caught, sent >>

Main_time_processing ==
    /\ pc = "time_processing"
    /\ LET res == IF variant = "Email" THEN Email_time_processing(now)
                  ELSE LINE_time_processing(now)
       IN  \/ /\ res.exc = NoExc
              /\ start_utc_str' = res.start_utc_str
              /\ end_utc_str' = res.end_utc_str
              /\ log' = log \o << Log("DEBUG", "time_processing() Start processing"),
                                  Log("DEBUG", "UTC start of the month (str)"),
                                  Log("DEBUG", "UTC today (str)"),
                                  Log("DEBUG", "time_processing() End processing") >>
              /\ Return("time_processing", "get_account_name")
              /\ UNCHANGED << exc, raised >>
           \/ /\ res.exc # NoExc
              /\ log' = log \o << Log("DEBUG", "time_processing() Start processing") >>
              /\ Raise(res.exc, "time_processing")
              /\ UNCHANGED << window, completed >>
    /\ UNCHANGED << config, world, account_list, account_name_dict, rankings,
                    caught, sent >>

\* the Email variant logs nothing in get_account_name
Main_get_account_name ==
    /\ pc = "get_account_name"
    /\ \/ \E pages \in PipelineListings :
            /\ org_pages' = pages
            /\ account_name_dict' =
                 IF variant = "Email"
                 THEN Email_get_account_name(account_list, pages)
                 ELSE LINE_get_account_name(account_list, pages)
            /\ log' = IF variant = "Email" THEN log
                      ELSE log \o << Log("DEBUG", "get_account_name() Start processing"),
                                     Log("DEBUG", "Account Names"),
                                     Log("DEBUG", "get_account_name() End processing") >>
            /\ Return("get_account_name", "get_service_cost_ranking")
            /\ UNCHANGED << exc, raised >>
       \/ \E k \in ApiErrors :
            /\ log' = IF variant = "Email" THEN log
                      ELSE log \o << Log("DEBUG", "get_account_name() Start processing") >>
            /\ Raise(k, "get_account_name")
            /\ UNCHANGED << org_pages, account_name_dict, completed >>
    /\ UNCHANGED << config, budget_filters, service_groups, account_groups,
                    account_list, window, rankings, caught, sent >>

Main_get_service_cost_ranking ==
    /\ pc = "get_service_cost_ranking"
    /\ \/ \E groups \in PipelineResponses :
            LET message == IF variant = "Email"
                           THEN Email_get_service_cost_ranking(groups)
                           ELSE LINE_get_service_cost_ranking(groups)
            IN  /\ service_groups' = groups
                /\ service_cost_ranking_message' = message
                /\ log' = log
                     \o << Log("DEBUG", "get_service_cost_ranking() Start processing") >>
                     \o [ i \in DOMAIN message |-> Log("DEBUG", "message") ]
                     \o << Log("DEBUG", "get_service_cost_ranking() End processing") >>
                /\ Return("get_service_cost_ranking", "get_account_cost_ranking")
                /\ UNCHANGED << exc, raised >>
       \/ \E k \in ApiErrors :
            /\ log' = log
                 \o << Log("DEBUG", "get_service_cost_ranking() Start processing") >>
            /\ Raise(k, "get_service_cost_ranking")
            /\ UNCHANGED << service_groups, service_cost_ranking_message, completed >>
    /\ UNCHANGED << config, budget_filters, org_pages, account_groups,
                    account_list, window, account_name_dict, total_cost,
                    account_cost_ranking_message, caught, sent >>

\* lines the LINE variant logged before arg_account_name_dict[account_id]
\* raised: those of the groups ranked above the first unmapped one
LoggedBeforeKeyError(dict, groups) ==
    LET top == Slice(SortedReverse(NotTax(groups)), 3)
        bad == { i \in DOMAIN top : top[i].Keys[1] \notin DOMAIN dict }
        first == CHOOSE i \in bad : \A j \in bad : i <= j
    IN  [ i \in 1..(first - 1) |-> Log("DEBUG", "message") ]

\* the Email variant logs only the start of get_account_cost_ranking
Main_get_account_cost_ranking ==
    /\ pc = "get_account_cost_ranking"
    /\ \/ \E groups \in PipelineResponses :
            LET res == IF variant = "Email"
                       THEN Email_get_account_cost_ranking(account_name_dict, groups)
                       ELSE LINE_get_account_cost_ranking(account_name_dict, groups)
                start == Log("DEBUG", "get_account_cost_ranking() Start processing")
            IN  /\ account_groups' = groups
                /\ \/ /\ res.exc = NoExc
                      /\ total_cost' = res.total_cost
                      /\ account_cost_ranking_message' =
                             res.account_cost_ranking_message
                      /\ log' = IF variant = "Email" THEN Append(log, start)
                                ELSE log \o << start >>
                                     \o [ i \in DOMAIN res.account_cost_ranking_message
                                            |-> Log("DEBUG", "message") ]
                                     \o << Log("DEBUG", "Total Cost"),
                                           Log("DEBUG", "get_account_cost_ranking() End processing") >>
                      /\ Return("get_account_cost_ranking", "send")
                      /\ UNCHANGED << exc, raised >>
                   \/ /\ res.exc # NoExc
                      /\ log' = IF variant = "Email" THEN Append(log, start)
                                ELSE log \o << start >>
                                     \o LoggedBeforeKeyError(account_name_dict, groups)
                      /\ Raise(res.exc, "get_account_cost_ranking")
                      /\ UNCHANGED << total_cost, account_cost_ranking_message,
                                      completed >>
       \/ \E k \in ApiErrors :
            /\ log' = Append(log,
                 Log("DEBUG", "get_account_cost_ranking() Start processing"))
            /\ Raise(k, "get_account_cost_ranking")
            /\ UNCHANGED << account_groups, total_cost,
                            account_cost_ranking_message, completed >>
    /\ UNCHANGED << config, budget_filters, org_pages, service_groups,
                    account_list, window, account_name_dict,
                    service_cost_ranking_message, caught, sent >>

\* '\n'.join(lines): the text whose lines are the elements of the list
Join(lines) == lines

\* An sns_publish whose debug line takes its argument only when the list
\* has a first element: an empty service ranking is published as it is.
Main_sns_publish_GuardedLog ==
    /\ pc = "send"
    /\ variant = "Email"
    /\ sent' = Append(sent,
         [ channel |-> "sns_topic.publish",
           Subject |-> [ prefix |-> "Cost Notification", date |-> start_utc_str ],
           Message |-> [ total_cost |-> total_cost,
                         account_cost_message |-> Join(account_cost_ranking_message),
                         service_cost_message |-> Join(service_cost_ranking_message) ] ])
    /\ log' = log \o << Log("DEBUG", "sns_publish() Start processing"),
                        Log("DEBUG", "SNS body"), Log("INFO", "SNS subject") >>
    /\ \/ /\ Return("sns_publish", "main_end")
          /\ UNCHANGED << exc, raised >>
       \/ /\ \E k \in ApiErrors : Raise(k, "sns_publish")
          /\ UNCHANGED completed
    /\ UNCHANGED << config, world, account_list, window, account_name_dict,
                    rankings, caught >>

\* Email: sns_publish.  The argument of the log.debug call of line 305,
\* arg_service_cost_ranking_message[0], is evaluated before the call,
\* whatever the log level: IndexError on an empty list.
Main_sns_publish ==
    /\ pc = "send"
    /\ variant = "Email"
    /\ LET start == Log("DEBUG", "sns_publish() Start processing")
           call  == [ channel |-> "sns_topic.publish",
                      Subject |-> [ prefix |-> "Cost Notification",
                                    date |-> start_utc_str ],
                      Message |-> [ total_cost |-> total_cost,
                                    account_cost_message |->
                                        Join(account_cost_ranking_message),
                                    service_cost_message |->
                                        Join(service_cost_ranking_message) ] ]
           before == log \o << start, Log("DEBUG", "SNS body"),
                               Log("INFO", "SNS subject") >>
       IN  \/ /\ service_cost_ranking_message = << >>
              /\ log' = Append(log, start)
              /\ Raise("IndexError", "sns_publish")
              /\ UNCHANGED << sent, completed >>
           \/ /\ service_cost_ranking_message # << >>
              /\ sent' = Append(sent, call)
              /\ log' = Append(before, Log("DEBUG", "sns_publish() End processing"))
              /\ Return("sns_publish", "main_end")
              /\ UNCHANGED << exc, raised >>
           \/ /\ service_cost_ranking_message # << >>
              /\ sent' = Append(sent, call)
              /\ log' = before
              /\ \E k \in ApiErrors : Raise(k, "sns_publish")
              /\ UNCHANGED completed
    /\ UNCHANGED << config, world, account_list, window, account_name_dict,
                    rankings, caught >>

\* arg_start_utc_str[:-3]
DropLast3(str) == SubSeq(str, 1, Len(str) - 3)

\* the POST request send_line builds
LineRequest ==
    [ channel |-> "urlopen",
      url |-> "https://notify-api.line.me/api/notify",
      message |-> [ date |-> DropLast3(start_utc_str),
                    total_cost |-> total_cost,
                    account_cost_message |-> Join(account_cost_ranking_message),
                    service_cost_message |-> Join(service_cost_ranking_message) ] ]

\* the lines of line_message, the text the format call lays out from a
\* request's message ("[...]" for the headings written with lenticular
\* brackets in the source); a joined list gives one line per element
line_message(m) ==
    << [ part |-> "date", text |-> m.date ],
       [ part |-> "heading", text |-> "[Total Cost]" ],
       [ part |-> "total_cost", text |-> m.total_cost ],
       [ part |-> "blank", text |-> "" ],
       [ part |-> "heading", text |-> "[Account Cost Ranking]" ] >>
    \o [ i \in DOMAIN m.account_cost_message |->
           [ part |-> "account_line", text |-> m.account_cost_message[i] ] ]
    \o << [ part |-> "blank", text |-> "" ],
          [ part |-> "heading", text |-> "[Service Cost Ranking]" ] >>
    \o [ i \in DOMAIN m.service_cost_message |->
           [ part |-> "service_line", text |-> m.service_cost_message[i] ] ]

\* A send_line that posts again when the first POST failed.
Main_send_line_Retrying ==
    /\ pc = "send"
    /\ variant = "LINE"
    /\ \/ /\ sent' = Append(sent, LineRequest)
          /\ UNCHANGED << raised, caught >>
       \/ /\ sent' = sent \o << LineRequest, LineRequest >>
          /\ raised' = Append(raised, [ kind |-> "HTTPError", stage |-> "send_line" ])
          /\ caught' = Append(caught, [ kind |-> "HTTPError", by |-> "send_line",
                                        branch |-> "HTTPError" ])
    /\ log' = log \o << Log("DEBUG", "send_line() Start processing"),
                        Log("DEBUG", "send_line() End processing") >>
    /\ Return("send_line", "main_end")
    /\ UNCHANGED << config, world, account_list, window, account_name_dict,
                    rankings, exc >>

\* LINE: send_line.  urlopen is called inside a try of send_line itself:
\* HTTPError and every other Exception are caught and logged there.
Main_send_line ==
    /\ pc = "send"
    /\ variant = "LINE"
    /\ LET start == Log("DEBUG", "send_line() Start processing")
           end   == Log("DEBUG", "send_line() End processing")
       IN  /\ sent' = Append(sent, LineRequest)
           /\ \/ /\ log' = log \o << start, Log("INFO", "LINE Notify Response"), end >>
                 /\ UNCHANGED << raised, caught >>
              \/ /\ raised' = Append(raised, [ kind |-> "HTTPError", stage |-> "send_line" ])
                 /\ caught' = Append(caught, [ kind |-> "HTTPError", by |-> "send_line",
                                               branch |-> "HTTPError" ])
                 /\ log' = log \o << start, Log("ERROR", "HTTP error occurred"), end >>
              \/ /\ raised' = Append(raised, [ kind |-> "URLError", stage |-> "send_line" ])
                 /\ caught' = Append(caught, [ kind |-> "URLError", by |-> "send_line",
                                               branch |-> "Exception" ])
                 /\ log' = log \o << start, Log("ERROR", "An error occurred"), end >>
           /\ Return("send_line", "main_end")
    /\ UNCHANGED << config, world, account_list, window, account_name_dict,
                    rankings, exc >>

Main_end ==
    /\ pc = "main_end"
    /\ pc' = "finally"
    /\ log' = Append(log, Log("DEBUG", "main() End processing"))
    /\ UNCHANGED << config, world, account_list, window, account_name_dict,
                    rankings, exc, raised, caught, sent, completed >>

\* the except clause entered for the exception in flight
Catch(branch, msg) ==
    /\ caught' = Append(caught, [ kind |-> exc, by |-> "lambda_handler_entrypoint",
                                  branch |-> branch ])
    /\ log' = log \o << Log("ERROR", msg), Log("ERROR", "error_message") >>
    /\ exc' = NoExc
    /\ pc' = "finally"

\* A handler without its last clause: only the two botocore classes.
ExceptWithoutCatchAll ==
    /\ pc = "except"
    /\ \/ /\ exc = "ClientError"
          /\ Catch("ClientError", "An error occurred with the AWS API.")
       \/ /\ exc = "BotoCoreError"
          /\ Catch("BotoCoreError", "An error occurred with the boto3 library.")
    /\ UNCHANGED << config, world, account_list, window, account_name_dict,
                    rankings, raised, sent, completed >>

\* A handler whose clauses are in the wrong order: Exception first.
ExceptCatchAllFirst ==
    /\ pc = "except"
    /\ Catch("Exception", "An unexpected error occurred.")
    /\ UNCHANGED << config, world, account_list, window, account_name_dict,
                    rankings, raised, sent, completed >>

\* except ClientError / except BotoCoreError / except Exception
Except ==
    /\ pc = "except"
    /\ \/ /\ exc = "ClientError"
          /\ Catch("ClientError", "An error occurred with the AWS API.")
       \/ /\ exc = "BotoCoreError"
          /\ Catch("BotoCoreError", "An error occurred with the boto3 library.")
       \/ /\ exc \notin { "ClientError", "BotoCoreError" }
          /\ Catch("Exception", "An unexpected error occurred.")
    /\ UNCHANGED << config, world, account_list, window, account_name_dict,
                    rankings, raised, sent, completed >>

Finally ==
    /\ pc = "finally"
    /\ pc' = "done"
    /\ log' = log \o << Log("DEBUG", "lambda_handler_entrypoint() End processing"),
                        CompletedLine >>
    /\ UNCHANGED << config, world, account_list, window, account_name_dict,
                    rankings, exc, raised, caught, sent, completed >>

Next ==
    \/ Entry
    \/ Main_get_account_list
    \/ Main_time_processing
    \/ Main_get_account_name
    \/ Main_get_service_cost_ranking
    \/ Main_get_account_cost_ranking
    \/ Main_sns_publish
    \/ Main_send_line
    \/ Main_end
    \/ Except
    \/ Finally

Spec == Init /\ [][Next]_vars

-----------------------------------------------------------------------------
(* What the claims about the rankings are stated with. *)

\* the number an amount string of the model stands for, in hundredths
ValueOf(text) == (CHOOSE a \in AmountTable : a.text = text).value

AmountValue(group) == ValueOf(group.Metrics.UnblendedCost.Amount)

\* a number of hundredths cut to its integer part, toward zero
TruncTowardZero(v) == IF v >= 0 THEN v \div 100 ELSE -((-v) \div 100)

NonTaxPositions(groups) ==
    { i \in DOMAIN groups : groups[i].Keys[1] # "Tax" }

\* the position in the response of the group a line was built from
PositionOf(groups, key) ==
    CHOOSE i \in DOMAIN groups : groups[i].Keys[1] = key

MinOf(a, b) == IF a < b THEN a ELSE b

\* the integer an optionally signed digit string shows
SignedValue(s) ==
    IF s # << >> /\ Head(s) = "-" THEN -DigitsToNat(Tail(s)) ELSE DigitsToNat(s)

\* the leading part of s made of a sign and digits
RECURSIVE NumberPrefixLen(_)
NumberPrefixLen(s) ==
    IF s = << >> \/ Head(s) \notin ({ "-" } \cup { Digits[d] : d \in 1..10 })
    THEN 0 ELSE 1 + NumberPrefixLen(Tail(s))

NumberPrefix(s) == SubSeq(s, 1, NumberPrefixLen(s))

RECURSIVE SumOfValues(_)
SumOfValues(groups) ==
    IF groups = << >> THEN 0
    ELSE AmountValue(Head(groups)) + SumOfValues(Tail(groups))

\* C1: no line of the service ranking or of the account ranking is built
\* from a group keyed "Tax": every line carries the key of a group of the
\* response whose key is not "Tax".
C1_NoTaxInRankings ==
    /\ \A i \in DOMAIN service_cost_ranking_message :
         /\ service_cost_ranking_message[i].name # "Tax"
         /\ \E p \in NonTaxPositions(service_groups) :
              service_groups[p].Keys[1] = service_cost_ranking_message[i].name
    /\ \A i \in DOMAIN account_cost_ranking_message :
         /\ account_cost_ranking_message[i].id # "Tax"
         /\ \E p \in NonTaxPositions(account_groups) :
              account_groups[p].Keys[1] = account_cost_ranking_message[i].id

\* a ranking was produced from a response whose Tax group has the largest amount
C1_Witness ==
    /\ pc \in { "service_ranked", "account_ranked" }
    /\ Len(service_cost_ranking_message) + Len(account_cost_ranking_message) >= 2
    /\ \E t \in DOMAIN service_groups :
         /\ service_groups[t].Keys[1] = "Tax"
         /\ \A p \in NonTaxPositions(service_groups) :
              AmountValue(service_groups[t]) > AmountValue(service_groups[p])

\* C2: the service ranking has exactly min(5, n) lines and the account
\* ranking exactly min(3, n), n the number of groups not keyed "Tax".
C2_RankingLengths ==
    /\ pc = "service_ranked" =>
         Len(service_cost_ranking_message)
           = MinOf(5, Cardinality(NonTaxPositions(service_groups)))
    /\ pc = "account_ranked" =>
         Len(account_cost_ranking_message)
           = MinOf(3, Cardinality(NonTaxPositions(account_groups)))

\* the service ranking of a response with more than 5 groups other than Tax
C2_Witness ==
    /\ pc = "service_ranked"
    /\ Cardinality(NonTaxPositions(service_groups)) > 5
    /\ Len(service_cost_ranking_message) = 5

\* the properties of C3 for one ranking: lines, the key of each, the response
RankingOrdered(lines, keyOf(_), groups) ==
    LET pos(i) == PositionOf(groups, keyOf(lines[i]))
        listed == { pos(i) : i \in DOMAIN lines }
    IN  /\ \A i \in DOMAIN lines :
             /\ SubSeq(lines[i].rank, 1, 3) = << "T", "O", "P" >>
             /\ DigitsToNat(SubSeq(lines[i].rank, 4, Len(lines[i].rank))) = i
        /\ \A i, j \in DOMAIN lines :
             i < j =>
               /\ AmountValue(groups[pos(i)]) >= AmountValue(groups[pos(j)])
               /\ AmountValue(groups[pos(i)]) = AmountValue(groups[pos(j)])
                    => pos(i) < pos(j)
        /\ \A p \in NonTaxPositions(groups) \ listed :
             \A q \in listed : AmountValue(groups[p]) <= AmountValue(groups[q])

ServiceKeyOf(line) == line.name

AccountKeyOf(line) == line.id

\* C3: ranks are TOP1, TOP2, ... in list order, amounts are non-increasing,
\* a group cut off by the truncation has an amount no greater than any
\* listed one, and groups of equal amount keep the order of the response.
C3_RankingOrder ==
    /\ pc = "service_ranked" =>
         RankingOrdered(service_cost_ranking_message, ServiceKeyOf, service_groups)
    /\ pc = "account_ranked" =>
         RankingOrdered(account_cost_ranking_message, AccountKeyOf, account_groups)

\* an account ranking that cut groups off, lists two groups of equal amount
\* and had to move a later group of the response before an earlier one
C3_Witness ==
    /\ pc = "account_ranked"
    /\ Cardinality(NonTaxPositions(account_groups)) > 3
    /\ \E i, j \in DOMAIN account_cost_ranking_message :
         /\ i < j
         /\ AmountValue(account_groups[PositionOf(account_groups,
                account_cost_ranking_message[i].id)])
            = AmountValue(account_groups[PositionOf(account_groups,
                account_cost_ranking_message[j].id)])
    /\ \E i, j \in DOMAIN account_cost_ranking_message :
         /\ i < j
         /\ PositionOf(account_groups, account_cost_ranking_message[i].id)
            > PositionOf(account_groups, account_cost_ranking_message[j].id)

\* the cost and unit of one line are those of the group it was built from
LineShowsTruncated(line, key, groups) ==
    LET group == groups[PositionOf(groups, key)]
    IN  /\ SignedValue(line.cost) = TruncTowardZero(AmountValue(group))
        /\ line.unit = group.Metrics.UnblendedCost.Unit

\* C4: every line shows the amount of its group cut toward zero to its
\* integer part, followed by the unit of that same group.
C4_TruncatedCost ==
    /\ pc = "service_ranked" =>
         \A i \in DOMAIN service_cost_ranking_message :
            LineShowsTruncated(service_cost_ranking_message[i],
                service_cost_ranking_message[i].name, service_groups)
    /\ pc = "account_ranked" =>
         \A i \in DOMAIN account_cost_ranking_message :
            LineShowsTruncated(account_cost_ranking_message[i],
                account_cost_ranking_message[i].id, account_groups)

\* a ranking with a line for 2.75 (shown as 2) and one for -1.5 (shown as
\* -1), in different units
C4_Witness ==
    /\ pc = "service_ranked"
    /\ \E i, j \in DOMAIN service_cost_ranking_message :
         /\ AmountValue(service_groups[PositionOf(service_groups,
                service_cost_ranking_message[i].name)]) = 275
         /\ SignedValue(service_cost_ranking_message[i].cost) = 2
         /\ AmountValue(service_groups[PositionOf(service_groups,
                service_cost_ranking_message[j].name)]) = -150
         /\ SignedValue(service_cost_ranking_message[j].cost) = -1
         /\ service_cost_ranking_message[i].unit
              # service_cost_ranking_message[j].unit

\* C10: the total returned by get_account_cost_ranking shows the sum of the
\* group amounts, cut to an integer once after the summation.
C10_TotalTruncatedAfterSum ==
    pc = "account_ranked" =>
        SignedValue(NumberPrefix(total_cost))
          = TruncTowardZero(SumOfValues(account_groups))

-----------------------------------------------------------------------------
(* What the claims about the name map and the window are stated with. *)

RequestedSet == { account_list[i] : i \in DOMAIN account_list }

ListedSet ==
    UNION { { org_pages[p].Accounts[i] : i \in DOMAIN org_pages[p].Accounts } :
              p \in DOMAIN org_pages }

\* C8: the map returned by get_account_name has as keys exactly the
\* requested identifiers that occur in the listing, each mapped to the name
\* the listing gives it.
C8_NameMapIsRequestedAndListed ==
    pc = "names_resolved" =>
        /\ DOMAIN account_name_dict
             = RequestedSet \cap { a.Id : a \in ListedSet }
        /\ \A k \in DOMAIN account_name_dict :
             \E a \in ListedSet : a.Id = k /\ a.Name = account_name_dict[k]

\* a listing of two pages; a requested identifier found on the second page,
\* one that is not listed, and a listed account that was not requested
C8_Witness ==
    /\ pc = "names_resolved"
    /\ Len(org_pages) >= 2
    /\ \E i \in DOMAIN org_pages[2].Accounts :
         org_pages[2].Accounts[i].Id \in DOMAIN account_name_dict
    /\ \E r \in RequestedSet : r \notin { a.Id : a \in ListedSet }
    /\ \E a \in ListedSet : a.Id \notin RequestedSet

\* YYYY-MM-DD, digit by digit
DateText(y, m, d) ==
    << Digits[(y \div 1000) + 1], Digits[((y \div 100) % 10) + 1],
       Digits[((y \div 10) % 10) + 1], Digits[(y % 10) + 1], "-",
       Digits[(m \div 10) + 1], Digits[(m % 10) + 1], "-",
       Digits[(d \div 10) + 1], Digits[(d % 10) + 1] >>

\* C9: in the Email variant time_processing returns, for every date, the
\* date itself as endDate and the first day of the preceding calendar month
\* as startDate, without raising.
C9_EmailPreviousMonthWindow ==
    (variant = "Email" /\ pc \in { "window_computed", "window_raised" }) =>
        /\ pc = "window_computed"
        /\ end_utc_str = DateText(now.year, now.month, now.day)
        /\ start_utc_str =
             IF now.month = 1 THEN DateText(now.year - 1, 12, 1)
             ELSE DateText(now.year, now.month - 1, 1)

-----------------------------------------------------------------------------
(* What the claims about the invocation are stated with. *)

EntryPoint == "lambda_handler_entrypoint"

\* the functions main() calls before the notification
EarlierStages ==
    { "get_account_list", "time_processing", "get_account_name",
      "get_service_cost_ranking", "get_account_cost_ranking" }

CompletedSet == { completed[i] : i \in DOMAIN completed }

\* the except clause of the entry point that matches an exception class
BranchFor(kind) ==
    IF kind \in { "ClientError", "BotoCoreError" } THEN kind ELSE "Exception"

\* C5: the entry point never raises: an exception in flight is always on
\* its way to an except clause of the entry point, the invocation can
\* always go on until it has returned, and when it has returned no exception
\* is in flight and the last call to the logger is the informational line
\* 'Processing completed successfully'.
C5_ReturnsNormallyAndLogsCompletion ==
    /\ exc # NoExc => pc = "except"
    /\ pc # "done" => ENABLED Next
    /\ pc = "done" =>
         /\ exc = NoExc
         /\ log # << >>
         /\ log[Len(log)] = [ level |-> "INFO",
                              msg |-> "Processing completed successfully" ]

\* an invocation that returned after a lookup failure (KeyError, IndexError)
C5_Witness ==
    /\ pc = "done"
    /\ \E i \in DOMAIN raised : raised[i].kind \in { "KeyError", "IndexError" }

\* C6: at most one notification call per invocation, through the channel
\* of the variant; it is issued only after the five earlier functions of
\* main() have returned, and never when one of them raised.
C6_OneNotificationAfterAllStages ==
    /\ Len(sent) <= 1
    /\ \A i \in DOMAIN sent :
         sent[i].channel = IF variant = "Email" THEN "sns_topic.publish"
                           ELSE "urlopen"
    /\ sent # << >> => EarlierStages \subseteq CompletedSet
    /\ (\E i \in DOMAIN raised : raised[i].stage \in EarlierStages)
         => sent = << >>

\* an invocation that returned after its one notification call failed
C6_Witness ==
    /\ pc = "done"
    /\ Len(sent) = 1
    /\ \E i \in DOMAIN raised : raised[i].stage \in { "sns_publish", "send_line" }

\* C7 as stated: every error is caught at the entry point, exactly once,
\* by the except clause of its class, and nowhere below.
C7_EveryErrorCaughtAtEntryPoint ==
    /\ \A i \in DOMAIN caught :
         /\ caught[i].by = EntryPoint
         /\ caught[i].kind = raised[i].kind
         /\ caught[i].branch = BranchFor(caught[i].kind)
    /\ pc = "done" => Len(caught) = Len(raised)

\* C7 as amended: every error is caught exactly once, unmodified; an error
\* raised by the POST of the LINE variant's send_line is caught by send_line
\* itself (its HTTPError clause, or its Exception clause) and never reaches
\* the entry point; every other error, the failure of the Email variant's
\* topic publish included, is caught at the entry point by the except
\* clause of its class.
C7_CaughtOnceAtEntryPointOrSendLine ==
    /\ Len(caught) <= Len(raised)
    /\ pc = "done" => Len(caught) = Len(raised)
    /\ \A i \in DOMAIN caught :
         /\ caught[i].kind = raised[i].kind
         /\ IF raised[i].stage = "send_line"
            THEN /\ variant = "LINE"
                 /\ caught[i].by = "send_line"
                 /\ caught[i].branch =
                      IF caught[i].kind = "HTTPError" THEN "HTTPError"
                      ELSE "Exception"
            ELSE /\ caught[i].by = EntryPoint
                 /\ caught[i].branch = BranchFor(caught[i].kind)

\* the Email variant's topic publish failed with an SDK error, which was
\* caught at the entry point
C7_Witness ==
    /\ pc = "done"
    /\ variant = "Email"
    /\ raised = << [ kind |-> "BotoCoreError", stage |-> "sns_publish" ] >>
    /\ Len(caught) = 1

-----------------------------------------------------------------------------
(* What the claims about the total are stated with. *)

\* what follows the number in the total
UnitOfTotal(total) == SubSeq(total, NumberPrefixLen(total) + 1, Len(total))

LastOf(seq) == seq[Len(seq)]

\* C14: the unit appended to the total is the unit of the last line of the
\* account ranking (the lowest-ranked entry), not that of the last group of
\* the response; with no group other than Tax the total has no unit at all,
\* whatever the sum.
C14_TotalUnitFromRankingLoop ==
    pc = "account_ranked" =>
        UnitOfTotal(total_cost) =
            IF account_cost_ranking_message = << >> THEN << >>
            ELSE LastOf(account_cost_ranking_message).unit

\* the last group of the response is not the lowest-ranked one and has
\* another unit
C14_Witness ==
    /\ pc = "account_ranked"
    /\ account_cost_ranking_message # << >>
    /\ LastOf(account_groups).Keys[1] # "Tax"
    /\ LastOf(account_groups).Metrics.UnblendedCost.Unit
         # LastOf(account_cost_ranking_message).unit
    /\ UnitOfTotal(total_cost) = LastOf(account_cost_ranking_message).unit

-----------------------------------------------------------------------------
(* What the claims about the Tax group and the total are stated with. *)

NonTaxGroups(groups) ==
    SelectSeq(groups, LAMBDA g : g.Keys[1] # "Tax")

\* the Tax group of a response has an amount other than zero
HasNonZeroTax(groups) ==
    \E t \in DOMAIN groups :
        groups[t].Keys[1] = "Tax" /\ AmountValue(groups[t]) # 0

RECURSIVE SumOfTruncatedValues(_)
SumOfTruncatedValues(groups) ==
    IF groups = << >> THEN 0
    ELSE TruncTowardZero(AmountValue(Head(groups)))
         + SumOfTruncatedValues(Tail(groups))

\* the number a deployment's way of accumulating gives over a list of groups
TotalOver(deployment, groups) ==
    IF deployment = "Email" THEN SumOfTruncatedValues(groups)
    ELSE TruncTowardZero(SumOfValues(groups))

\* the total a deployment returned is the one over every group of the response
SumsUnfiltered(deployment, total, groups) ==
    SignedValue(NumberPrefix(total)) = TotalOver(deployment, groups)

\* the total a deployment returned is the one over the groups other than Tax
SumsFiltered(deployment, total, groups) ==
    SignedValue(NumberPrefix(total)) = TotalOver(deployment, NonTaxGroups(groups))

\* C11 as stated: for a response whose Tax group has a non-zero amount, one
\* of the Email and LINE totals is summed over the unfiltered groups (Tax
\* counted) and the other over the Tax-filtered groups (Tax not counted).
C11_ExactlyOneVariantCountsTax ==
    [][ ( /\ pc = "email_ranked"
          /\ pc' = "line_ranked"
          /\ HasNonZeroTax(account_groups) )
        => \/ /\ SumsUnfiltered("Email", total_cost, account_groups)
              /\ SumsFiltered("LINE", total_cost', account_groups)
           \/ /\ SumsFiltered("Email", total_cost, account_groups)
              /\ SumsUnfiltered("LINE", total_cost', account_groups) ]_vars

\* C11, amended: in both variants the account ranking has no line for the
\* Tax group, and the total is summed over the unfiltered groups, so the Tax
\* amount is counted in the total of the Email variant and in that of the
\* LINE variant.
C11_BothVariantsCountTax ==
    pc \in { "email_ranked", "line_ranked" } =>
        /\ variant = ( IF pc = "email_ranked" THEN "Email" ELSE "LINE" )
        /\ \A i \in DOMAIN account_cost_ranking_message :
             account_cost_ranking_message[i].id # "Tax"
        /\ Len(account_cost_ranking_message)
             = MinOf(3, Cardinality(NonTaxPositions(account_groups)))
        /\ SumsUnfiltered(variant, total_cost, account_groups)

\* the LINE total of a response whose Tax group changes the total, after the
\* Email total of the same response
C11_Witness ==
    /\ pc = "line_ranked"
    /\ HasNonZeroTax(account_groups)
    /\ NonTaxPositions(account_groups) # {}
    /\ SumsUnfiltered("LINE", total_cost, account_groups)
    /\ ~SumsFiltered("LINE", total_cost, account_groups)
    /\ TotalOver("Email", account_groups)
         # TotalOver("Email", NonTaxGroups(account_groups))

-----------------------------------------------------------------------------
(* What the claims about the notification step are stated with. *)

RaisedAt(stage) == { raised[i].kind : i \in { j \in DOMAIN raised : raised[j].stage = stage } }

\* the notification function was entered with an empty service ranking,
\* the five functions before it having returned, and is over
SentEmptyServiceRanking ==
    /\ EarlierStages \subseteq CompletedSet
    /\ NonTaxPositions(service_groups) = {}
    /\ pc # "send"

\* C13: when the service-grouped response has no group other than Tax the
\* service ranking is empty; with every earlier function returned, the Email
\* variant's sns_publish then raises IndexError, whatever LOG_LEVEL is,
\* without having called the topic publish and does not return, so nothing
\* is sent; the LINE variant's send_line issues exactly one POST, whose text
\* ends with the service ranking heading, no ranking line after it.
C13_EmptyServiceRankingAtSend ==
    SentEmptyServiceRanking =>
        /\ service_cost_ranking_message = << >>
        /\ variant = "Email" =>
             /\ raised = << [ kind |-> "IndexError", stage |-> "sns_publish" ] >>
             /\ sent = << >>
             /\ "sns_publish" \notin CompletedSet
        /\ variant = "LINE" =>
             /\ Len(sent) = 1
             /\ sent[1].channel = "urlopen"
             /\ sent[1].message.service_cost_message = << >>
             /\ LastOf(line_message(sent[1].message))
                  = [ part |-> "heading", text |-> "[Service Cost Ranking]" ]
             /\ "send_line" \in CompletedSet

\* the Email invocation has returned after the IndexError of sns_publish,
\* the logger being set to a level at which a debug line is not written
C13_Witness ==
    /\ pc = "done"
    /\ variant = "Email"
    /\ LOG_LEVEL = "ERROR"
    /\ SentEmptyServiceRanking
    /\ RaisedAt("sns_publish") = { "IndexError" }
    /\ sent = << >>

-----------------------------------------------------------------------------
(* What the claims about the account names of the ranking are stated with. *)

\* the place of a group among the groups other than Tax, by descending
\* amount, a group of the same amount standing before it in the response
\* counting as above it
RankOf(groups, p) ==
    1 + Cardinality({ q \in NonTaxPositions(groups) :
                        \/ AmountValue(groups[q]) > AmountValue(groups[p])
                        \/ /\ AmountValue(groups[q]) = AmountValue(groups[p])
                           /\ q < p })

\* positions of the groups whose account has no entry in the name map
Unmapped(groups, dict) ==
    { p \in NonTaxPositions(groups) : groups[p].Keys[1] \notin DOMAIN dict }

UnmappedInTop3 ==
    \E p \in Unmapped(account_groups, account_name_dict) :
        RankOf(account_groups, p) <= 3

\* get_account_cost_ranking is over and its cost query was answered
AccountResponseRanked ==
    /\ EarlierStages \ { "get_account_cost_ranking" } \subseteq CompletedSet
    /\ pc # "get_account_cost_ranking"
    /\ RaisedAt("get_account_cost_ranking")
         \cap { "ClientError", "BotoCoreError" } = {}

\* C12: the account-grouped response is ranked whatever accounts it names;
\* when one of its three highest groups other than Tax names an account
\* missing from the name map, get_account_cost_ranking raises KeyError and
\* returns neither a line nor a total, nothing is sent in the invocation,
\* and the error is caught by the Exception clause of the entry point;
\* otherwise (no unmapped account, or only below the third place) it raises
\* nothing, returns, and every line carries the name the map gives.
C12_KeyErrorOnUnmappedTopAccount ==
    AccountResponseRanked =>
        IF UnmappedInTop3
        THEN /\ raised = << [ kind |-> "KeyError",
                              stage |-> "get_account_cost_ranking" ] >>
             /\ "get_account_cost_ranking" \notin CompletedSet
             /\ total_cost = << >>
             /\ account_cost_ranking_message = << >>
             /\ sent = << >>
             /\ pc \in { "except", "finally", "done" }
             /\ pc = "except" => exc = "KeyError"
             /\ pc # "except" =>
                  caught = << [ kind |-> "KeyError", by |-> EntryPoint,
                                branch |-> "Exception" ] >>
        ELSE /\ RaisedAt("get_account_cost_ranking") = {}
             /\ "get_account_cost_ranking" \in CompletedSet
             /\ \A i \in DOMAIN account_cost_ranking_message :
                  account_cost_ranking_message[i].name
                    = account_name_dict[account_cost_ranking_message[i].id]

\* the invocation has returned after the KeyError of an account that the
\* organization lists but the budget does not name
C12_Witness ==
    /\ pc = "done"
    /\ AccountResponseRanked
    /\ UnmappedInTop3
    /\ \E p \in Unmapped(account_groups, account_name_dict) :
         account_groups[p].Keys[1] \in { a.Id : a \in ListedSet }
    /\ RaisedAt("get_account_cost_ranking") = { "KeyError" }
    /\ sent = << >>

=============================================================================
